---- MODULE Spec2Model ----
(***************************************************************************)
(* Model of ironyy.  The credential subsystem (src/src/auth.rs): the User  *)
(* account, its password operations, its TOTP second factor and the       *)
(* password policy function is_password_compliant.  The store of epics    *)
(* and stories (src/src/db.rs, src/src/models.rs): JiraDatabase over a    *)
(* JSON file.  The pages of the user interface (src/src/ui/pages/mod.rs): *)
(* what each page makes of a line of input.                               *)
(***************************************************************************)
EXTENDS Integers, Sequences, FiniteSets, TLC

(***************************************************************************)
(* Bounds of the model.                                                    *)
(***************************************************************************)
\* change_password is explored up to this many rotations of one account
MaxRotations == 2
\* number of TOTP time steps the clock advances through
MaxTime == 1
\* size of the abstract space of one-time codes (code 0 stands for "000000")
NumCodes == 3
\* number of distinct seeds EasyTotp::new can draw
NumSecrets == 2
\* the store is explored up to this last_item_id and this many items held at once
MaxItems == 3

(***************************************************************************)
(* Program constants.                                                      *)
(***************************************************************************)
\* is_password_compliant: password.len() >= 16 && password.len() <= 128
PASSWORD_MIN_LEN == 16
PASSWORD_MAX_LEN == 128

(***************************************************************************)
(* Characters.  A password is a sequence of characters; a character is    *)
(* named by a string and carries the Unicode properties the policy reads  *)
(* and the number of bytes of its UTF-8 encoding.                          *)
(*   "A" "B"   ASCII uppercase letters        "a" "b"  ASCII lowercase     *)
(*   "1"       ASCII digit                    "!"      ASCII punctuation   *)
(*   "U+00C9"  E acute, uppercase, 2 bytes    "U+00E9" e acute, lowercase  *)
(*   "U+20AC"  euro sign, 3 bytes             "U+3042" hiragana a, 3 bytes *)
(***************************************************************************)
Chars == {"A", "B", "a", "b", "1", "!", "U+00C9", "U+00E9", "U+20AC", "U+3042"}

\* char::is_uppercase
is_uppercase(c) == c \in {"A", "B", "U+00C9"}

\* char::is_lowercase
is_lowercase(c) == c \in {"a", "b", "U+00E9"}

\* char::is_digit(10)
is_digit(c) == c \in {"1"}

\* char::is_alphanumeric
is_alphanumeric(c) == c \in {"A", "B", "a", "b", "1", "U+00C9", "U+00E9", "U+3042"}

\* char::len_utf8
len_utf8(c) ==
    IF c \in {"U+00C9", "U+00E9"} THEN 2
    ELSE IF c \in {"U+20AC", "U+3042"} THEN 3
    ELSE 1

\* str::len : the length of a string in bytes, the sum of len_utf8 over its
\* characters (summed by encoded width, 1 to 4 bytes)
str_len(s) ==
    LET width(k) == Cardinality({i \in 1..Len(s) : len_utf8(s[i]) = k})
    IN  width(1) + 2 * width(2) + 3 * width(3) + 4 * width(4)

\* Result values, and the outcome of a call that panics
Ok(v) == [tag |-> "Ok", val |-> v]
Err(m) == [tag |-> "Err", msg |-> m]
Panic(m) == [tag |-> "Panic", msg |-> m]

MsgLength == "Password must be between 16 and 128 characters long."
MsgUppercase == "Password must contain at least one uppercase letter."
MsgLowercase == "Password must contain at least one lowercase letter."
MsgDigit == "Password must contain at least one digit."
MsgSpecial == "Password must contain at least one special character."
PolicyMsgs == {MsgLength, MsgUppercase, MsgLowercase, MsgDigit, MsgSpecial}

\* fn is_password_compliant(password: &str) -> Result<(), anyhow::Error>
is_password_compliant(password) ==
    LET is_acceptable_len == str_len(password) >= PASSWORD_MIN_LEN
                             /\ str_len(password) <= PASSWORD_MAX_LEN
        has_uppercase == \E i \in 1..Len(password) : is_uppercase(password[i])
        has_lowercase == \E i \in 1..Len(password) : is_lowercase(password[i])
        has_digit == \E i \in 1..Len(password) : is_digit(password[i])
        has_special == \E i \in 1..Len(password) : ~is_alphanumeric(password[i])
    IN  IF is_acceptable_len /\ has_uppercase /\ has_lowercase /\ has_digit /\ has_special
            THEN Ok("()")
        ELSE IF ~is_acceptable_len THEN Err(MsgLength)
        ELSE IF ~has_uppercase THEN Err(MsgUppercase)
        ELSE IF ~has_lowercase THEN Err(MsgLowercase)
        ELSE IF ~has_digit THEN Err(MsgDigit)
        ELSE Err(MsgSpecial)


(***************************************************************************)
(* u32.  TLC's integers are narrower than 2^32, so a u32 is kept as two   *)
(* 16-bit limbs; the arithmetic below is exact for the full 32-bit range. *)
(***************************************************************************)
LIMB == 65536

\* a small number as a u32
U32(n) == [hi |-> 0, lo |-> n]

\* u32::MAX
u32_max == [hi |-> LIMB - 1, lo |-> LIMB - 1]

\* u32 + 1 without overflow checks (wrapping_add(1))
u32_wrapping_inc(n) ==
    IF n.lo < LIMB - 1 THEN [hi |-> n.hi, lo |-> n.lo + 1]
    ELSE [hi |-> (n.hi + 1) % LIMB, lo |-> 0]

\* u32 < u32
u32_lt(a, b) == a.hi < b.hi \/ (a.hi = b.hi /\ a.lo < b.lo)

\* u32 / 10 and u32 % 10 by long division over the limbs
u32_div10(n) ==
    LET r == (n.hi % 10) * LIMB + n.lo
    IN  [hi |-> n.hi \div 10, lo |-> r \div 10]

u32_mod10(n) == ((n.hi % 10) * LIMB + n.lo) % 10

\* impl Display for u32, as the bytes of the decimal digits
RECURSIVE u32_display(_)
u32_display(n) ==
    IF n.hi = 0 /\ n.lo < 10 THEN <<48 + n.lo>>
    ELSE Append(u32_display(u32_div10(n)), 48 + u32_mod10(n))

(***************************************************************************)
(* Uuid.  A Uuid is its 32 hexadecimal digits; Uuid::new_v4 draws them at *)
(* random with the version digit 4 and the variant digit 8..b.            *)
(***************************************************************************)
UuidOf(k) == [i \in 1..32 |-> IF i = 13 THEN 4 ELSE IF i = 17 THEN 8
                               ELSE IF i = 32 THEN k ELSE 0]

\* the values Uuid::new_v4 returns in the model: they end in ...1 and ...0
Uuids == {UuidOf(1), UuidOf(0)}

\* one lowercase hexadecimal digit as a byte
hex_byte(d) == IF d < 10 THEN 48 + d ELSE 87 + d

\* impl Display for Uuid: 8-4-4-4-12 hyphenated lowercase hex, 36 bytes
uuid_display(uuid) ==
    [i \in 1..36 |->
        IF i \in {9, 14, 19, 24} THEN 45
        ELSE hex_byte(uuid[i - (IF i > 24 THEN 4 ELSE IF i > 19 THEN 3
                                 ELSE IF i > 14 THEN 2 ELSE IF i > 9 THEN 1 ELSE 0)])]

\* BASE64_STANDARD_NO_PAD.encode: the 6-bit digits of the encoding
RECURSIVE b64_encode(_)
b64_encode(bytes) ==
    IF Len(bytes) = 0 THEN <<>>
    ELSE IF Len(bytes) = 1 THEN
        <<bytes[1] \div 4, (bytes[1] % 4) * 16>>
    ELSE IF Len(bytes) = 2 THEN
        <<bytes[1] \div 4, (bytes[1] % 4) * 16 + bytes[2] \div 16, (bytes[2] % 16) * 4>>
    ELSE <<bytes[1] \div 4, (bytes[1] % 4) * 16 + bytes[2] \div 16,
           (bytes[2] % 16) * 4 + bytes[3] \div 64, bytes[3] % 64>>
         \o b64_encode(SubSeq(bytes, 4, Len(bytes)))

\* the salt input taken from the uuid alone
salt_input_uuid_only(uuid, pass_num) == b64_encode(uuid_display(uuid))

\* format!("{uuid}{pass_num}") encoded as the salt input
salt_input(uuid, pass_num) == b64_encode(uuid_display(uuid) \o u32_display(pass_num))

MsgSalt == "Failed to generate salt for password hashing"
MsgHash == "Failed to hash password"

\* fn hash(uuid, pass_num, password) -> Result<String, anyhow::Error>
\* faults: the inputs on which SaltString::from_b64 and Argon2::hash_password
\* return Err.  The encoded hash carries the salt; Argon2 is taken to be
\* injective in (salt, password).
hash(uuid, pass_num, password, faults) ==
    IF pass_num \in faults.salt THEN Err(MsgSalt)
    ELSE IF password \in faults.password THEN Err(MsgHash)
    ELSE Ok([salt |-> salt_input(uuid, pass_num), password |-> password])


(***************************************************************************)
(* Option values.                                                          *)
(***************************************************************************)
None == [tag |-> "None"]
Some(v) == [tag |-> "Some", val |-> v]

(***************************************************************************)
(* EasyTotp (crate easy_totp), as auth.rs uses it: new draws a random     *)
(* seed and may fail, create_qr_png may fail, generate_token computes the *)
(* code of the seed for the current time step and may fail.               *)
(***************************************************************************)
APP_NAME == "ironyy"

Secrets == 1..NumSecrets
Codes == 0..(NumCodes - 1)
Times == 0..MaxTime

MsgTotpNew == "EasyTotp::new failed"
MsgQr == "EasyTotp::create_qr_png failed"
MsgToken == "EasyTotp::generate_token failed"
MsgNotEnabled == "2FA is not enabled for this user."

\* EasyTotp::new(issuer, account_name): seed is the random material drawn
EasyTotp_new(issuer, account_name, seed, rng_ok) ==
    IF rng_ok THEN Ok([issuer |-> issuer, account_name |-> account_name, secret |-> seed])
    ELSE Err(MsgTotpNew)

\* EasyTotp::create_qr_png(et)
EasyTotp_create_qr_png(et, render_ok) ==
    IF render_ok THEN Ok("png") ELSE Err(MsgQr)

\* EasyTotp::generate_token(et) at time step t
EasyTotp_generate_token(et, t, clock_ok) ==
    IF clock_ok THEN Ok((et.secret + t) % NumCodes) ELSE Err(MsgToken)

(***************************************************************************)
(* impl User.  Each method is an operator from the receiver and the       *)
(* arguments to the receiver after the call (self) and the value returned *)
(* (ret).                                                                  *)
(***************************************************************************)

\* new without the policy check: an account is built from any password
new_unchecked(username, password, uuid, faults) ==
    LET password_number == U32(0)
        password_hash == hash(uuid, password_number, password, faults)
    IN  IF password_hash.tag = "Err" THEN password_hash
        ELSE Ok([username |-> username,
                 uuid |-> uuid,
                 password_hash |-> password_hash.val,
                 password_number |-> password_number,
                 totp |-> None])

\* pub fn new(username, password) -> Result<Self, anyhow::Error>
\* uuid is the value Uuid::new_v4() returns
new(username, password, uuid, faults) ==
    LET compliant == is_password_compliant(password)
        password_number == U32(0)
        password_hash == hash(uuid, password_number, password, faults)
    IN  IF compliant.tag = "Err" THEN compliant
        ELSE IF password_hash.tag = "Err" THEN password_hash
        ELSE Ok([username |-> username,
                 uuid |-> uuid,
                 password_hash |-> password_hash.val,
                 password_number |-> password_number,
                 totp |-> None])

\* enable_2fa storing the secret before the QR code is rendered
enable_2fa_store_first(self, seed, rng_ok, render_ok) ==
    LET et == EasyTotp_new(Some(APP_NAME), self.username, seed, rng_ok)
    IN  IF et.tag = "Err" THEN [self |-> self, ret |-> et]
        ELSE LET stored == [self EXCEPT !.totp = Some(et.val)]
                 my_qr_code == EasyTotp_create_qr_png(et.val, render_ok)
             IN  IF my_qr_code.tag = "Err" THEN [self |-> stored, ret |-> my_qr_code]
                 ELSE [self |-> stored, ret |-> Ok("()")]

\* enable_2fa keeping the secret of an account that already has one
enable_2fa_keep_existing(self, seed, rng_ok, render_ok) ==
    LET et == EasyTotp_new(Some(APP_NAME), self.username, seed, rng_ok)
    IN  IF et.tag = "Err" THEN [self |-> self, ret |-> et]
        ELSE LET my_qr_code == EasyTotp_create_qr_png(et.val, render_ok)
             IN  IF my_qr_code.tag = "Err" THEN [self |-> self, ret |-> my_qr_code]
                 ELSE IF self.totp.tag = "Some" THEN [self |-> self, ret |-> Ok("()")]
                 ELSE [self |-> [self EXCEPT !.totp = Some(et.val)], ret |-> Ok("()")]

\* pub fn enable_2fa(&mut self) -> Result<(), anyhow::Error>
enable_2fa(self, seed, rng_ok, render_ok) ==
    LET et == EasyTotp_new(Some(APP_NAME), self.username, seed, rng_ok)
    IN  IF et.tag = "Err" THEN [self |-> self, ret |-> et]
        ELSE LET my_qr_code == EasyTotp_create_qr_png(et.val, render_ok)
             IN  IF my_qr_code.tag = "Err" THEN [self |-> self, ret |-> my_qr_code]
                 ELSE [self |-> [self EXCEPT !.totp = Some(et.val)], ret |-> Ok("()")]

\* verify_password answering false when the attempt cannot be hashed
verify_password_masking(self, password_attempt, faults) ==
    LET reference_hash == self.password_hash
        attempt_hash == hash(self.uuid, self.password_number, password_attempt, faults)
    IN  IF attempt_hash.tag = "Err" THEN Ok(FALSE)
        ELSE Ok(reference_hash = attempt_hash.val)

\* pub fn verify_password(&self, password_attempt) -> Result<bool, anyhow::Error>
verify_password(self, password_attempt, faults) ==
    LET reference_hash == self.password_hash
        attempt_hash == hash(self.uuid, self.password_number, password_attempt, faults)
    IN  IF attempt_hash.tag = "Err" THEN attempt_hash
        ELSE Ok(reference_hash = attempt_hash.val)

\* verify_totp answering false instead of the not-enabled error
verify_totp_conflated(self, code, t, clock_ok) ==
    IF self.totp.tag = "Some" THEN
        LET reference_code == EasyTotp_generate_token(self.totp.val, t, clock_ok)
        IN  IF reference_code.tag = "Err" THEN reference_code
            ELSE Ok(reference_code.val = code)
    ELSE Ok(FALSE)

\* verify_totp comparing with the code of time step 0 instead of the current one
verify_totp_stale(self, code, t, clock_ok) ==
    IF self.totp.tag = "Some" THEN
        LET reference_code == EasyTotp_generate_token(self.totp.val, 0, clock_ok)
        IN  IF reference_code.tag = "Err" THEN reference_code
            ELSE Ok(reference_code.val = code)
    ELSE Err(MsgNotEnabled)

\* pub fn verify_totp(&self, code: &str) -> Result<bool, anyhow::Error>
verify_totp(self, code, t, clock_ok) ==
    IF self.totp.tag = "Some" THEN
        LET reference_code == EasyTotp_generate_token(self.totp.val, t, clock_ok)
        IN  IF reference_code.tag = "Err" THEN reference_code
            ELSE Ok(reference_code.val = code)
    ELSE Err(MsgNotEnabled)

MsgOverflow == "attempt to add with overflow"

\* change_password incrementing the counter before the policy check
change_password_counter_first(self, new_password, overflow_checks, faults) ==
    LET compliant == is_password_compliant(new_password)
        incremented == [self EXCEPT !.password_number = u32_wrapping_inc(@)]
    IN  IF self.password_number = u32_max /\ overflow_checks
            THEN [self |-> self, ret |-> Panic(MsgOverflow)]
        ELSE IF compliant.tag = "Err" THEN [self |-> incremented, ret |-> compliant]
        ELSE LET password_hash == hash(incremented.uuid, incremented.password_number,
                                       new_password, faults)
             IN  IF password_hash.tag = "Err"
                     THEN [self |-> incremented, ret |-> password_hash]
                 ELSE [self |-> [incremented EXCEPT !.password_hash = password_hash.val],
                       ret |-> Ok("()")]

\* change_password rehashing without incrementing the counter
change_password_same_counter(self, new_password, overflow_checks, faults) ==
    LET compliant == is_password_compliant(new_password)
    IN  IF compliant.tag = "Err" THEN [self |-> self, ret |-> compliant]
        ELSE LET password_hash == hash(self.uuid, self.password_number, new_password, faults)
             IN  IF password_hash.tag = "Err" THEN [self |-> self, ret |-> password_hash]
                 ELSE [self |-> [self EXCEPT !.password_hash = password_hash.val],
                       ret |-> Ok("()")]

\* change_password issuing a new uuid for the new salt
change_password_new_uuid(self, new_password, overflow_checks, faults) ==
    LET compliant == is_password_compliant(new_password)
    IN  IF compliant.tag = "Err" THEN [self |-> self, ret |-> compliant]
        ELSE IF self.password_number = u32_max /\ overflow_checks
            THEN [self |-> self, ret |-> Panic(MsgOverflow)]
        ELSE LET incremented == [self EXCEPT !.password_number = u32_wrapping_inc(@),
                                             !.uuid = UuidOf(1 - @[32])]
                 password_hash == hash(incremented.uuid, incremented.password_number,
                                       new_password, faults)
             IN  IF password_hash.tag = "Err"
                     THEN [self |-> incremented, ret |-> password_hash]
                 ELSE [self |-> [incremented EXCEPT !.password_hash = password_hash.val],
                       ret |-> Ok("()")]

\* change_password that also removes the second-factor secret when it succeeds
change_password_reset_2fa(self, new_password, overflow_checks, faults) ==
    LET compliant == is_password_compliant(new_password)
    IN  IF compliant.tag = "Err" THEN [self |-> self, ret |-> compliant]
        ELSE IF self.password_number = u32_max /\ overflow_checks
            THEN [self |-> self, ret |-> Panic(MsgOverflow)]
        ELSE LET incremented == [self EXCEPT !.password_number = u32_wrapping_inc(@)]
                 password_hash == hash(incremented.uuid, incremented.password_number,
                                       new_password, faults)
             IN  IF password_hash.tag = "Err"
                     THEN [self |-> incremented, ret |-> password_hash]
                 ELSE [self |-> [incremented EXCEPT !.password_hash = password_hash.val,
                                                    !.totp = None],
                       ret |-> Ok("()")]

\* pub fn change_password(&mut self, new_password) -> Result<(), anyhow::Error>
\* overflow_checks: whether the build panics on `self.password_number += 1`
\* at u32::MAX (overflow checks on, the debug profile) or wraps (off, release)
change_password(self, new_password, overflow_checks, faults) ==
    LET compliant == is_password_compliant(new_password)
    IN  IF compliant.tag = "Err" THEN [self |-> self, ret |-> compliant]
        ELSE IF self.password_number = u32_max /\ overflow_checks
            THEN [self |-> self, ret |-> Panic(MsgOverflow)]
        ELSE LET incremented == [self EXCEPT !.password_number = u32_wrapping_inc(@)]
                 password_hash == hash(incremented.uuid, incremented.password_number,
                                       new_password, faults)
             IN  IF password_hash.tag = "Err"
                     THEN [self |-> incremented, ret |-> password_hash]
                 ELSE [self |-> [incremented EXCEPT !.password_hash = password_hash.val],
                       ret |-> Ok("()")]

\* disable_2fa leaving the secret in place
disable_2fa_keep(self) == self

\* disable_2fa replacing the secret by a blank one instead of removing it
disable_2fa_blank(self) ==
    [self EXCEPT !.totp = Some([issuer |-> Some(APP_NAME),
                                account_name |-> self.username,
                                secret |-> 0])]

\* pub fn disable_2fa(&mut self)
disable_2fa(self) == [self EXCEPT !.totp = None]


(***************************************************************************)
(* Inputs of the account operations.                                       *)
(***************************************************************************)
Repeat(c, n) == [i \in 1..n |-> c]

\* a compliant 16-character password
PwBase == <<"A", "a", "1", "!">> \o Repeat("a", 12)
\* a compliant password differing from PwBase in its last character
PwOneOff == <<"A", "a", "1", "!">> \o Repeat("a", 11) \o <<"b">>
\* a 16-character password without a special character
PwNoSpecial == <<"A", "a", "1", "1">> \o Repeat("a", 12)
\* the empty string
PwEmpty == <<>>

AccountPasswords == {PwBase, PwOneOff, PwNoSpecial, PwEmpty}
Usernames == {"alice", "bob"}

\* the library fault scenarios explored: none, salt encoding failing at one
\* counter value, hashing failing on one password
NoFaults == [salt |-> {}, password |-> {}]
FaultScenarios ==
    {NoFaults}
    \cup {[salt |-> {U32(k)}, password |-> {}] : k \in 1..MaxRotations}
    \cup {[salt |-> {}, password |-> {PwOneOff}]}

(***************************************************************************)
(* State.                                                                  *)
(***************************************************************************)
VARIABLES
    user,             \* Option<User>: the account the caller holds
    cur_password,     \* Option: the password given to the last successful new/change_password
    faults,           \* the inputs on which the hashing library fails
    now,              \* the current TOTP time step
    call,             \* the last call made: its name and arguments
    ret,              \* the value that call returned
    db_file           \* Option: the contents of the JSON file of the store

vars == <<user, cur_password, faults, now, call, ret, db_file>>

Init ==
    /\ user = None
    /\ cur_password = None
    /\ faults \in FaultScenarios
    /\ now = 0
    /\ call = [op |-> "none"]
    /\ ret = None
    /\ db_file = None

\* an account that has lived through u32::MAX - 1 successful rotations
\* (a run of MaxRotations changes cannot get there by steps)
AgedNumber == [hi |-> LIMB - 1, lo |-> LIMB - 2]

InitAged ==
    /\ faults \in FaultScenarios
    /\ \E username \in Usernames, uuid \in Uuids :
          user = Some([username |-> username,
                       uuid |-> uuid,
                       password_hash |-> hash(uuid, AgedNumber, PwBase, NoFaults).val,
                       password_number |-> AgedNumber,
                       totp |-> None])
    /\ cur_password = Some(PwBase)
    /\ now = 0
    /\ call = [op |-> "none"]
    /\ ret = None
    /\ db_file = None

\* what no method of the account touches: the hashing library's behaviour and
\* the file of the store
Env == UNCHANGED <<faults, db_file>>

\* let user = User::new(username, password), by a caller that holds no account
New(username, password, uuid) ==
    /\ user = None
    /\ LET r == new(username, password, uuid, faults)
       IN  /\ user' = IF r.tag = "Ok" THEN Some(r.val) ELSE None
           /\ cur_password' = IF r.tag = "Ok" THEN Some(password) ELSE None
           /\ call' = [op |-> "new", username |-> username, password |-> password]
           /\ ret' = r
    /\ UNCHANGED now
    /\ Env

\* user.change_password(new_password), in a build with or without overflow checks
ChangePassword(new_password, overflow_checks) ==
    /\ user.tag = "Some"
    /\ u32_lt(user.val.password_number, U32(MaxRotations))
       \/ ~u32_lt(user.val.password_number, AgedNumber)
    /\ LET r == change_password(user.val, new_password, overflow_checks, faults)
       IN  /\ user' = Some(r.self)
           /\ cur_password' = IF r.ret.tag = "Ok" THEN Some(new_password) ELSE cur_password
           /\ call' = [op |-> "change_password", password |-> new_password]
           /\ ret' = r.ret
    /\ UNCHANGED now
    /\ Env

\* user.verify_password(password_attempt)
VerifyPassword(password_attempt) ==
    /\ user.tag = "Some"
    /\ call' = [op |-> "verify_password", password |-> password_attempt]
    /\ ret' = verify_password(user.val, password_attempt, faults)
    /\ UNCHANGED <<user, cur_password, now>>
    /\ Env

\* user.enable_2fa()
Enable2fa(seed, rng_ok, render_ok) ==
    /\ user.tag = "Some"
    /\ LET r == enable_2fa(user.val, seed, rng_ok, render_ok)
       IN  /\ user' = Some(r.self)
           /\ call' = [op |-> "enable_2fa", seed |-> seed,
                       rng_ok |-> rng_ok, render_ok |-> render_ok]
           /\ ret' = r.ret
    /\ UNCHANGED <<cur_password, now>>
    /\ Env

\* user.verify_totp(code)
VerifyTotp(code, clock_ok) ==
    /\ user.tag = "Some"
    /\ call' = [op |-> "verify_totp", code |-> code, clock_ok |-> clock_ok]
    /\ ret' = verify_totp(user.val, code, now, clock_ok)
    /\ UNCHANGED <<user, cur_password, now>>
    /\ Env

\* user.disable_2fa()
Disable2fa ==
    /\ user.tag = "Some"
    /\ user' = Some(disable_2fa(user.val))
    /\ call' = [op |-> "disable_2fa"]
    /\ ret' = [tag |-> "Unit"]
    /\ UNCHANGED <<cur_password, now>>
    /\ Env

\* the clock reaches the next 30-second time step
Tick ==
    /\ now < MaxTime
    /\ now' = now + 1
    /\ call' = [op |-> "tick"]
    /\ ret' = None
    /\ UNCHANGED <<user, cur_password>>
    /\ Env

\* the calls a caller makes on an account it holds
Methods ==
    \/ \E new_password \in AccountPasswords, overflow_checks \in BOOLEAN :
          ChangePassword(new_password, overflow_checks)
    \/ \E password_attempt \in AccountPasswords : VerifyPassword(password_attempt)
    \/ \E seed \in Secrets, rng_ok \in BOOLEAN, render_ok \in BOOLEAN :
          Enable2fa(seed, rng_ok, render_ok)
    \/ \E code \in Codes, clock_ok \in BOOLEAN : VerifyTotp(code, clock_ok)
    \/ Disable2fa
    \/ Tick

Next ==
    \/ \E username \in Usernames, password \in AccountPasswords, uuid \in Uuids :
          New(username, password, uuid)
    \/ Methods

\* an account from its construction on
Spec == Init /\ [][Next]_vars

\* an account at any point of its life: from its construction on, or late in
\* its life, up to and across the end of the counter's range
SpecLifetime == (Init \/ InitAged) /\ [][Next]_vars

TypeOK ==
    /\ user.tag \in {"None", "Some"}
    /\ cur_password.tag = user.tag
    /\ now \in Times


(***************************************************************************)
(* The password policy as a pure function: is_password_compliant applied  *)
(* to passwords built from a core (which character classes occur) padded  *)
(* with one character to a length around the limits.                      *)
(***************************************************************************)
CoreAscii == <<"A", "a", "1", "!">>
CoreWide == <<"U+00C9", "U+00E9", "1", "U+20AC">>

Pick(order, S) == LET In(c) == c \in S IN SelectSeq(order, In)

Cores ==
    {Pick(CoreAscii, S) : S \in SUBSET {"A", "a", "1", "!"}}
    \cup {Pick(CoreWide, S) : S \in SUBSET {"U+00C9", "U+00E9", "1", "U+20AC"}}

Pads == {"A", "a", "1", "!", "U+00E9", "U+3042"}

Totals == {PASSWORD_MIN_LEN - 1, PASSWORD_MIN_LEN, PASSWORD_MAX_LEN, PASSWORD_MAX_LEN + 1}

PadTo(core, c, n) == core \o Repeat(c, n - Len(core))

PolicyInputs == Cores \cup {PadTo(core, c, n) : core \in Cores, c \in Pads, n \in Totals}

\* the policy function does not read the account: it is applied once to each input
InitPolicy ==
    /\ user = None
    /\ cur_password = None
    /\ faults = NoFaults
    /\ now = 0
    /\ call = [op |-> "none"]
    /\ ret = None
    /\ db_file = None

\* is_password_compliant(password)
CheckPolicy(password) ==
    /\ call.op = "none"
    /\ call' = [op |-> "is_password_compliant", password |-> password]
    /\ ret' = is_password_compliant(password)
    /\ UNCHANGED <<user, cur_password, now>>
    /\ Env

NextPolicy == \E password \in PolicyInputs : CheckPolicy(password)

SpecPolicy == InitPolicy /\ [][NextPolicy]_vars


(***************************************************************************)
(* The salt derivation as a pure function: the salt input of hash,        *)
(* computed for two pairs (uuid, pass_num).                                *)
(***************************************************************************)
\* counters whose decimal forms have one, two and ten digits
SaltCounters ==
    {U32(k) : k \in 0..MaxRotations} \cup {U32(10), U32(11), AgedNumber, u32_max}

SaltPairs == Uuids \X SaltCounters

\* the salt inputs of hash(a[1], a[2], _) and hash(b[1], b[2], _)
DeriveSalts(a, b) ==
    /\ call.op = "none"
    /\ call' = [op |-> "salt_input", a |-> a, b |-> b]
    /\ ret' = <<salt_input(a[1], a[2]), salt_input(b[1], b[2])>>
    /\ UNCHANGED <<user, cur_password, now>>
    /\ Env

NextSalt == \E a \in SaltPairs, b \in SaltPairs : DeriveSalts(a, b)

SpecSalt == InitPolicy /\ [][NextSalt]_vars


(***************************************************************************)
(* The store (src/src/models.rs, src/src/db.rs).  Ids are u32 values; a   *)
(* HashMap is a function on the set of its keys, a Vec a sequence.        *)
(***************************************************************************)
\* enum Status
Statuses == {"Open", "InProgress", "Resolved", "Closed"}

\* Epic::new(name, description)
Epic_new(name, description) ==
    [name |-> name, description |-> description, status |-> "Open", stories |-> <<>>]

\* Story::new(name, description)
Story_new(name, description) ==
    [name |-> name, description |-> description, status |-> "Open"]

\* HashMap::new()
EmptyMap == [k \in {} |-> k]

\* HashMap::contains_key
contains_key(m, k) == k \in DOMAIN m

\* HashMap::insert: a value already under the key is replaced
insert(m, k, v) == [x \in DOMAIN m \cup {k} |-> IF x = k THEN v ELSE m[x]]

\* HashMap::remove
remove(m, k) == [x \in DOMAIN m \ {k} |-> m[x]]

\* Vec::contains
contains(v, x) == \E i \in 1..Len(v) : v[i] = x

\* Vec::retain(|&id| id != x)
retain_ne(v, x) == LET Keep(id) == id # x IN SelectSeq(v, Keep)

\* the JSON text JiraDatabase::new writes: { "last_item_id": 0, "epics": {}, "stories": {} }
EmptyState == [last_item_id |-> U32(0), epics |-> EmptyMap, stories |-> EmptyMap]

\* contents of the file that serde_json cannot parse into a DBState: what a
\* write that failed midway leaves
Truncated == [tag |-> "Truncated"]

MsgExists == "Database file with that path already exists"
MsgDir == "fs::create_dir_all failed"
MsgRead == "fs::read_to_string failed"
MsgParse == "serde_json::from_str failed"
MsgWrite == "fs::write failed"
MsgNoEpic(epic_id) == <<"Epic with id {} does not exist", epic_id>>
MsgNoStory(story_id) == <<"Story with id {} does not exist", story_id>>
MsgNoStoryInEpic(story_id, epic_id) ==
    <<"Story with id {} does not exist in epic with id {}", story_id, epic_id>>

\* the errors of the file system and of the JSON parser
IoErrors == {Err(MsgDir), Err(MsgRead), Err(MsgParse), Err(MsgWrite)}

\* how much of its data an fs::write puts in the file: all of it (success),
\* none (the file cannot be opened) or a part (the write fails midway)
Writes == {"all", "none", "part"}

\* JSONFileDatabase::read_db; the file holds the DBState its JSON text denotes
\* self: the contents of the file; read_ok: whether fs::read_to_string succeeds
read_db(self, read_ok) ==
    IF self = None \/ ~read_ok THEN Err(MsgRead)
    ELSE IF self.val = Truncated THEN Err(MsgParse)
    ELSE Ok(self.val)

\* JSONFileDatabase::write_db
write_db(self, db_state, written) ==
    IF written = "all" THEN [self |-> Some(db_state), ret |-> Ok("()")]
    ELSE IF written = "none" THEN [self |-> self, ret |-> Err(MsgWrite)]
    ELSE [self |-> Some(Truncated), ret |-> Err(MsgWrite)]

\* new without the test that no file exists at the path
JiraDatabase_new_overwrite(self, dir_ok, written) ==
    IF ~dir_ok THEN [self |-> self, ret |-> Err(MsgDir)]
    ELSE write_db(self, EmptyState, written)

\* pub fn new(file_path: String) -> Result<Self>
JiraDatabase_new(self, dir_ok, written) ==
    IF ~dir_ok THEN [self |-> self, ret |-> Err(MsgDir)]
    ELSE IF self = None THEN write_db(self, EmptyState, written)
    ELSE [self |-> self, ret |-> Err(MsgExists)]

\* pub fn create_epic(&self, epic: Epic) -> Result<u32>
\* overflow_checks: whether the build panics on `db_state.last_item_id + 1`
\* at u32::MAX (overflow checks on, the debug profile) or wraps (off, release)
create_epic(self, epic, read_ok, written, overflow_checks) ==
    LET db_state == read_db(self, read_ok)
    IN  IF db_state.tag = "Err" THEN [self |-> self, ret |-> db_state]
        ELSE IF db_state.val.last_item_id = u32_max /\ overflow_checks
            THEN [self |-> self, ret |-> Panic(MsgOverflow)]
        ELSE LET new_id == u32_wrapping_inc(db_state.val.last_item_id)
                 w == write_db(self,
                               [db_state.val EXCEPT !.last_item_id = new_id,
                                                    !.epics = insert(@, new_id, epic)],
                               written)
             IN  IF w.ret.tag = "Err" THEN w ELSE [self |-> w.self, ret |-> Ok(new_id)]

\* pub fn create_story(&self, story: Story, epic_id: u32) -> Result<u32>
create_story(self, story, epic_id, read_ok, written, overflow_checks) ==
    LET db_state == read_db(self, read_ok)
    IN  IF db_state.tag = "Err" THEN [self |-> self, ret |-> db_state]
        ELSE IF ~contains_key(db_state.val.epics, epic_id)
            THEN [self |-> self, ret |-> Err(MsgNoEpic(epic_id))]
        ELSE IF db_state.val.last_item_id = u32_max /\ overflow_checks
            THEN [self |-> self, ret |-> Panic(MsgOverflow)]
        ELSE LET new_id == u32_wrapping_inc(db_state.val.last_item_id)
                 w == write_db(self,
                               [db_state.val EXCEPT
                                    !.last_item_id = new_id,
                                    !.stories = insert(@, new_id, story),
                                    !.epics[epic_id].stories = Append(@, new_id)],
                               written)
             IN  IF w.ret.tag = "Err" THEN w ELSE [self |-> w.self, ret |-> Ok(new_id)]

\* delete_epic succeeding on an id the store does not hold
delete_epic_lenient(self, epic_id, read_ok, written) ==
    LET db_state == read_db(self, read_ok)
    IN  IF db_state.tag = "Err" THEN [self |-> self, ret |-> db_state]
        ELSE IF ~contains_key(db_state.val.epics, epic_id)
            THEN [self |-> self, ret |-> Ok("()")]
        ELSE LET epic == db_state.val.epics[epic_id]
                 listed == {epic.stories[i] : i \in 1..Len(epic.stories)}
             IN  write_db(self,
                          [db_state.val EXCEPT
                               !.epics = remove(@, epic_id),
                               !.stories = [x \in DOMAIN @ \ listed |-> @[x]]],
                          written)

\* delete_epic leaving the stories of the epic in the stories map
delete_epic_orphans(self, epic_id, read_ok, written) ==
    LET db_state == read_db(self, read_ok)
    IN  IF db_state.tag = "Err" THEN [self |-> self, ret |-> db_state]
        ELSE IF ~contains_key(db_state.val.epics, epic_id)
            THEN [self |-> self, ret |-> Err(MsgNoEpic(epic_id))]
        ELSE write_db(self, [db_state.val EXCEPT !.epics = remove(@, epic_id)], written)

\* pub fn delete_epic(&self, epic_id: u32) -> Result<()>
delete_epic(self, epic_id, read_ok, written) ==
    LET db_state == read_db(self, read_ok)
    IN  IF db_state.tag = "Err" THEN [self |-> self, ret |-> db_state]
        ELSE IF ~contains_key(db_state.val.epics, epic_id)
            THEN [self |-> self, ret |-> Err(MsgNoEpic(epic_id))]
        ELSE LET epic == db_state.val.epics[epic_id]
                 listed == {epic.stories[i] : i \in 1..Len(epic.stories)}
             IN  write_db(self,
                          [db_state.val EXCEPT
                               !.epics = remove(@, epic_id),
                               !.stories = [x \in DOMAIN @ \ listed |-> @[x]]],
                          written)

\* delete_story without the test that the epic lists the story
delete_story_unchecked(self, epic_id, story_id, read_ok, written) ==
    LET db_state == read_db(self, read_ok)
    IN  IF db_state.tag = "Err" THEN [self |-> self, ret |-> db_state]
        ELSE IF ~contains_key(db_state.val.epics, epic_id)
            THEN [self |-> self, ret |-> Err(MsgNoEpic(epic_id))]
        ELSE write_db(self,
                      [db_state.val EXCEPT
                           !.epics[epic_id].stories = retain_ne(@, story_id),
                           !.stories = remove(@, story_id)],
                      written)

\* pub fn delete_story(&self, epic_id: u32, story_id: u32) -> Result<()>
delete_story(self, epic_id, story_id, read_ok, written) ==
    LET db_state == read_db(self, read_ok)
    IN  IF db_state.tag = "Err" THEN [self |-> self, ret |-> db_state]
        ELSE IF ~contains_key(db_state.val.epics, epic_id)
            THEN [self |-> self, ret |-> Err(MsgNoEpic(epic_id))]
        ELSE IF ~contains(db_state.val.epics[epic_id].stories, story_id)
            THEN [self |-> self, ret |-> Err(MsgNoStoryInEpic(story_id, epic_id))]
        ELSE write_db(self,
                      [db_state.val EXCEPT
                           !.epics[epic_id].stories = retain_ne(@, story_id),
                           !.stories = remove(@, story_id)],
                      written)

\* update_epic_status storing a rebuilt epic with the new status
update_epic_status_rebuild(self, epic_id, status, read_ok, written) ==
    LET db_state == read_db(self, read_ok)
    IN  IF db_state.tag = "Err" THEN [self |-> self, ret |-> db_state]
        ELSE IF ~contains_key(db_state.val.epics, epic_id)
            THEN [self |-> self, ret |-> Err(MsgNoEpic(epic_id))]
        ELSE LET epic == db_state.val.epics[epic_id]
             IN  write_db(self,
                          [db_state.val EXCEPT
                               !.epics[epic_id] =
                                   [Epic_new(epic.name, epic.description)
                                        EXCEPT !.status = status]],
                          written)

\* pub fn update_epic_status(&self, epic_id: u32, status: Status) -> Result<()>
update_epic_status(self, epic_id, status, read_ok, written) ==
    LET db_state == read_db(self, read_ok)
    IN  IF db_state.tag = "Err" THEN [self |-> self, ret |-> db_state]
        ELSE IF ~contains_key(db_state.val.epics, epic_id)
            THEN [self |-> self, ret |-> Err(MsgNoEpic(epic_id))]
        ELSE write_db(self, [db_state.val EXCEPT !.epics[epic_id].status = status], written)

\* pub fn update_story_status(&self, story_id: u32, status: Status) -> Result<()>
update_story_status(self, story_id, status, read_ok, written) ==
    LET db_state == read_db(self, read_ok)
    IN  IF db_state.tag = "Err" THEN [self |-> self, ret |-> db_state]
        ELSE IF ~contains_key(db_state.val.stories, story_id)
            THEN [self |-> self, ret |-> Err(MsgNoStory(story_id))]
        ELSE write_db(self, [db_state.val EXCEPT !.stories[story_id].status = status],
                      written)

(***************************************************************************)
(* Inputs of the store operations and the store as a state machine.       *)
(***************************************************************************)
EpicInputs == {Epic_new("", ""), Epic_new("epic", "description")}
StoryInputs == {Story_new("", ""), Story_new("story", "description")}

\* the ids a caller passes: those the store may hold, and one it does not
Ids == {U32(k) : k \in 0..MaxItems} \cup {u32_max}

\* what the file system does during one operation: whether the file is
\* read, and how much of the new state is written
IoOutcomes == {<<TRUE, "all">>, <<FALSE, "all">>, <<TRUE, "none">>, <<TRUE, "part">>}

\* the two creates are explored while last_item_id is below MaxItems or at the
\* end of the u32 range, and the store holds fewer than MaxItems items
MayCreate ==
    /\ db_file.tag = "Some"
    /\ db_file.val # Truncated
          => /\ \/ u32_lt(db_file.val.last_item_id, U32(MaxItems))
                \/ db_file.val.last_item_id = u32_max
             /\ Cardinality(DOMAIN db_file.val.epics)
                    + Cardinality(DOMAIN db_file.val.stories) < MaxItems

\* no file at the path yet
InitDb ==
    /\ user = None
    /\ cur_password = None
    /\ faults = NoFaults
    /\ now = 0
    /\ call = [op |-> "none"]
    /\ ret = None
    /\ db_file = None

\* a store that has handed out u32::MAX ids and still holds the first epic
\* (a run of MaxItems creates cannot get there by steps)
AgedState ==
    [last_item_id |-> u32_max,
     epics |-> insert(EmptyMap, U32(1), Epic_new("", "")),
     stories |-> EmptyMap]

InitDbAged ==
    /\ user = None
    /\ cur_password = None
    /\ faults = NoFaults
    /\ now = 0
    /\ call = [op |-> "none"]
    /\ ret = None
    /\ db_file = Some(AgedState)

\* what no operation of the store touches: the account and the clock
EnvDb == UNCHANGED <<user, cur_password, faults, now>>

\* JiraDatabase::new(file_path)
JiraNew(dir_ok, written) ==
    /\ LET r == JiraDatabase_new(db_file, dir_ok, written)
       IN  /\ db_file' = r.self
           /\ call' = [op |-> "JiraDatabase::new", dir_ok |-> dir_ok, written |-> written]
           /\ ret' = r.ret
    /\ EnvDb

\* db.create_epic(epic), in a build with or without overflow checks
CreateEpic(epic, io, overflow_checks) ==
    /\ MayCreate
    /\ LET r == create_epic(db_file, epic, io[1], io[2], overflow_checks)
       IN  /\ db_file' = r.self
           /\ call' = [op |-> "create_epic", epic |-> epic, io |-> io]
           /\ ret' = r.ret
    /\ EnvDb

\* db.create_story(story, epic_id), in a build with or without overflow checks
CreateStory(story, epic_id, io, overflow_checks) ==
    /\ MayCreate
    /\ LET r == create_story(db_file, story, epic_id, io[1], io[2], overflow_checks)
       IN  /\ db_file' = r.self
           /\ call' = [op |-> "create_story", story |-> story, epic_id |-> epic_id, io |-> io]
           /\ ret' = r.ret
    /\ EnvDb

\* db.delete_epic(epic_id)
DeleteEpic(epic_id, io) ==
    /\ db_file.tag = "Some"
    /\ LET r == delete_epic(db_file, epic_id, io[1], io[2])
       IN  /\ db_file' = r.self
           /\ call' = [op |-> "delete_epic", epic_id |-> epic_id, io |-> io]
           /\ ret' = r.ret
    /\ EnvDb

\* db.delete_story(epic_id, story_id)
DeleteStory(epic_id, story_id, io) ==
    /\ db_file.tag = "Some"
    /\ LET r == delete_story(db_file, epic_id, story_id, io[1], io[2])
       IN  /\ db_file' = r.self
           /\ call' = [op |-> "delete_story", epic_id |-> epic_id, story_id |-> story_id, io |-> io]
           /\ ret' = r.ret
    /\ EnvDb

\* db.update_epic_status(epic_id, status)
UpdateEpicStatus(epic_id, status, io) ==
    /\ db_file.tag = "Some"
    /\ LET r == update_epic_status(db_file, epic_id, status, io[1], io[2])
       IN  /\ db_file' = r.self
           /\ call' = [op |-> "update_epic_status", epic_id |-> epic_id,
                       status |-> status, io |-> io]
           /\ ret' = r.ret
    /\ EnvDb

\* db.update_story_status(story_id, status)
UpdateStoryStatus(story_id, status, io) ==
    /\ db_file.tag = "Some"
    /\ LET r == update_story_status(db_file, story_id, status, io[1], io[2])
       IN  /\ db_file' = r.self
           /\ call' = [op |-> "update_story_status", story_id |-> story_id,
                       status |-> status, io |-> io]
           /\ ret' = r.ret
    /\ EnvDb

NextDb ==
    \/ \E dir_ok \in BOOLEAN, written \in Writes : JiraNew(dir_ok, written)
    \/ \E epic \in EpicInputs, io \in IoOutcomes, overflow_checks \in BOOLEAN :
          CreateEpic(epic, io, overflow_checks)
    \/ \E story \in StoryInputs, epic_id \in Ids, io \in IoOutcomes,
          overflow_checks \in BOOLEAN :
          CreateStory(story, epic_id, io, overflow_checks)
    \/ \E epic_id \in Ids, io \in IoOutcomes : DeleteEpic(epic_id, io)
    \/ \E epic_id \in Ids, story_id \in Ids, io \in IoOutcomes :
          DeleteStory(epic_id, story_id, io)

\* a store from the creation of its file on
SpecDb == InitDb /\ [][NextDb]_vars

\* a store at any point of its life: from the creation of its file on, or
\* late in its life, up to and across the end of the range of ids
SpecDbLifetime == (InitDb \/ InitDbAged) /\ [][NextDb]_vars

(***************************************************************************)
(* The operations that look an item up by its id, each as a function of   *)
(* the store it is called on: one call on a store that a run of served    *)
(* operations has built.                                                   *)
(***************************************************************************)
\* the stores one more served operation makes of the stores in S
StoreStep(S) ==
    S \cup {create_epic(Some(s), epic, TRUE, "all", FALSE).self.val :
                s \in S, epic \in EpicInputs}
      \cup UNION {{create_story(Some(s), story, epic_id, TRUE, "all", FALSE).self.val :
                      story \in StoryInputs, epic_id \in DOMAIN s.epics} : s \in S}
      \cup UNION {{delete_epic(Some(s), epic_id, TRUE, "all").self.val :
                      epic_id \in DOMAIN s.epics} : s \in S}
      \cup UNION {{update_epic_status(Some(s), epic_id, status, TRUE, "all").self.val :
                      epic_id \in DOMAIN s.epics, status \in Statuses} : s \in S}
      \cup UNION {{update_story_status(Some(s), story_id, status, TRUE, "all").self.val :
                      story_id \in DOMAIN s.stories, status \in Statuses} : s \in S}

\* the stores at most k served operations make of the new store
RECURSIVE StoresAfter(_)
StoresAfter(k) == IF k = 0 THEN {EmptyState} ELSE StoreStep(StoresAfter(k - 1))

\* a file that holds one of these stores, or what a failed write left
InitDbLookup ==
    /\ user = None
    /\ cur_password = None
    /\ faults = NoFaults
    /\ now = 0
    /\ call = [op |-> "none"]
    /\ ret = None
    /\ db_file \in {Some(s) : s \in StoresAfter(MaxItems)} \cup {Some(Truncated)}

NextDbLookup ==
    /\ call.op = "none"
    /\ \/ \E story \in StoryInputs, epic_id \in Ids, io \in IoOutcomes,
             overflow_checks \in BOOLEAN :
             CreateStory(story, epic_id, io, overflow_checks)
       \/ \E epic_id \in Ids, io \in IoOutcomes : DeleteEpic(epic_id, io)
       \/ \E epic_id \in Ids, status \in Statuses, io \in IoOutcomes :
             UpdateEpicStatus(epic_id, status, io)
       \/ \E story_id \in Ids, status \in Statuses, io \in IoOutcomes :
             UpdateStoryStatus(story_id, status, io)

SpecDbLookup == InitDbLookup /\ [][NextDbLookup]_vars

(***************************************************************************)
(* The pages (src/src/ui/pages/mod.rs).  A line of input is a sequence of *)
(* characters; handle_input maps it to an optional Action.                 *)
(***************************************************************************)
\* enum Action
Exit == [action |-> "Exit"]
CreateEpicAction == [action |-> "CreateEpic"]
NavigateToPreviousPage == [action |-> "NavigateToPreviousPage"]
NavigateToEpicDetail(epic_id) == [action |-> "NavigateToEpicDetail", epic_id |-> epic_id]
NavigateToStoryDetail(story_id) ==
    [action |-> "NavigateToStoryDetail", story_id |-> story_id]
UpdateEpicStatusAction(epic_id) == [action |-> "UpdateEpicStatus", epic_id |-> epic_id]
DeleteEpicAction(epic_id) == [action |-> "DeleteEpic", epic_id |-> epic_id]
CreateStoryAction(epic_id) == [action |-> "CreateStory", epic_id |-> epic_id]
UpdateStoryStatusAction(story_id) == [action |-> "UpdateStoryStatus", story_id |-> story_id]
DeleteStoryAction(story_id) == [action |-> "DeleteStory", story_id |-> story_id]

\* char::to_digit(10) on the ASCII decimal digits
digit_of ==
    [c \in {"0", "1", "2", "3", "4", "5", "6", "7", "8", "9"} |->
        CASE c = "0" -> 0 [] c = "1" -> 1 [] c = "2" -> 2 [] c = "3" -> 3 [] c = "4" -> 4
          [] c = "5" -> 5 [] c = "6" -> 6 [] c = "7" -> 7 [] c = "8" -> 8 [] c = "9" -> 9]

MsgEmpty == "cannot parse integer from empty string"
MsgInvalidDigit == "invalid digit found in string"
MsgPosOverflow == "number too large to fit in target type"

\* the digits of a numeral read from the left into a u32: acc * 10 + digit,
\* with the checks for a character that is no digit and for overflow
RECURSIVE parse_digits(_, _)
parse_digits(digits, acc) ==
    IF Len(digits) = 0 THEN Ok(acc)
    ELSE IF Head(digits) \notin DOMAIN digit_of THEN Err(MsgInvalidDigit)
    ELSE LET lo == acc.lo * 10 + digit_of[Head(digits)]
             hi == acc.hi * 10 + lo \div LIMB
         IN  IF hi >= LIMB THEN Err(MsgPosOverflow)
             ELSE parse_digits(Tail(digits), [hi |-> hi, lo |-> lo % LIMB])

\* str::parse::<u32>(): an optional "+" followed by one or more ASCII digits
parse_u32(src) ==
    IF Len(src) = 0 THEN Err(MsgEmpty)
    ELSE LET digits == IF Head(src) = "+" THEN Tail(src) ELSE src
         IN  IF Len(digits) = 0 THEN Err(MsgInvalidDigit)
             ELSE parse_digits(digits, U32(0))

\* HomePage::handle_input answering an id without looking it up
HomePage_handle_input_any_id(self, input, read_ok) ==
    IF input = <<"q">> THEN Ok(Some(Exit))
    ELSE IF input = <<"c">> THEN Ok(Some(CreateEpicAction))
    ELSE LET id == parse_u32(input)
         IN  IF id.tag = "Ok" THEN Ok(Some(NavigateToEpicDetail(id.val)))
             ELSE Ok(None)

\* impl Page for HomePage: fn handle_input(&self, input: &str) -> Result<Option<Action>>
\* self: [db: the file of the store]
HomePage_handle_input(self, input, read_ok) ==
    IF input = <<"q">> THEN Ok(Some(Exit))
    ELSE IF input = <<"c">> THEN Ok(Some(CreateEpicAction))
    ELSE LET id == parse_u32(input)
         IN  IF id.tag = "Ok" THEN
                 LET db_state == read_db(self.db, read_ok)
                 IN  IF db_state.tag = "Err" THEN db_state
                     ELSE IF contains_key(db_state.val.epics, id.val)
                         THEN Ok(Some(NavigateToEpicDetail(id.val)))
                     ELSE Ok(None)
             ELSE Ok(None)

\* EpicDetail::handle_input looking the id up among the epics
EpicDetail_handle_input_epics(self, input, read_ok) ==
    IF input = <<"p">> THEN Ok(Some(NavigateToPreviousPage))
    ELSE IF input = <<"u">> THEN Ok(Some(UpdateEpicStatusAction(self.epic_id)))
    ELSE IF input = <<"d">> THEN Ok(Some(DeleteEpicAction(self.epic_id)))
    ELSE IF input = <<"c">> THEN Ok(Some(CreateStoryAction(self.epic_id)))
    ELSE LET id == parse_u32(input)
         IN  IF id.tag = "Ok" THEN
                 LET db_state == read_db(self.db, read_ok)
                 IN  IF db_state.tag = "Err" THEN db_state
                     ELSE IF contains_key(db_state.val.epics, id.val)
                         THEN Ok(Some(NavigateToStoryDetail(id.val)))
                     ELSE Ok(None)
             ELSE Ok(None)

\* impl Page for EpicDetail: fn handle_input
\* self: [epic_id, db]
EpicDetail_handle_input(self, input, read_ok) ==
    IF input = <<"p">> THEN Ok(Some(NavigateToPreviousPage))
    ELSE IF input = <<"u">> THEN Ok(Some(UpdateEpicStatusAction(self.epic_id)))
    ELSE IF input = <<"d">> THEN Ok(Some(DeleteEpicAction(self.epic_id)))
    ELSE IF input = <<"c">> THEN Ok(Some(CreateStoryAction(self.epic_id)))
    ELSE LET id == parse_u32(input)
         IN  IF id.tag = "Ok" THEN
                 LET db_state == read_db(self.db, read_ok)
                 IN  IF db_state.tag = "Err" THEN db_state
                     ELSE IF contains_key(db_state.val.stories, id.val)
                         THEN Ok(Some(NavigateToStoryDetail(id.val)))
                     ELSE Ok(None)
             ELSE Ok(None)

\* StoryDetail::handle_input answering the id of a story like EpicDetail does
StoryDetail_handle_input_navigates(self, input) ==
    IF input = <<"p">> THEN Ok(Some(NavigateToPreviousPage))
    ELSE IF input = <<"u">> THEN Ok(Some(UpdateStoryStatusAction(self.story_id)))
    ELSE IF input = <<"d">> THEN Ok(Some(DeleteStoryAction(self.story_id)))
    ELSE LET id == parse_u32(input)
             db_state == read_db(self.db, TRUE)
         IN  IF id.tag = "Ok" /\ db_state.tag = "Ok"
                    /\ contains_key(db_state.val.stories, id.val)
                 THEN Ok(Some(NavigateToStoryDetail(id.val)))
             ELSE Ok(None)

\* impl Page for StoryDetail: fn handle_input
\* self: [story_id, db]
StoryDetail_handle_input(self, input) ==
    IF input = <<"p">> THEN Ok(Some(NavigateToPreviousPage))
    ELSE IF input = <<"u">> THEN Ok(Some(UpdateStoryStatusAction(self.story_id)))
    ELSE IF input = <<"d">> THEN Ok(Some(DeleteStoryAction(self.story_id)))
    ELSE Ok(None)

\* the decimal numeral of a small number
Numeral(k) == <<CHOOSE c \in DOMAIN digit_of : digit_of[c] = k>>

\* lines of input: the command letters, numerals of ids the store may hold
\* and of ids it does not, numerals with a sign, leading zeros or white
\* space, numerals at and beyond u32::MAX, and junk
PageInputs ==
    {<<"q">>, <<"c">>, <<"p">>, <<"u">>, <<"d">>, <<>>, <<"Q">>, <<"+">>,
     <<"q", "\n">>, <<"p", "\n">>, <<"q", "q">>, <<"c", "1">>,
     <<"q", "9", "8", "3", "f", "2", "j">>, <<"p", "9", "8", "3", "f", "2", "j">>,
     <<"j", "9", "8", "3", "f", "2", "j">>, <<"9", "9", "9">>,
     <<"+", "1">>, <<"-", "1">>, <<"0", "1">>, <<"1", " ">>, <<" ", "1">>, <<"2", "\n">>,
     <<"U+0661">>,
     <<"4", "2", "9", "4", "9", "6", "7", "2", "9", "5">>,
     <<"4", "2", "9", "4", "9", "6", "7", "2", "9", "6">>,
     <<"9", "9", "9", "9", "9", "9", "9", "9", "9", "9", "9">>}
    \cup {Numeral(k) : k \in 0..MaxItems}

\* page.handle_input(input) on a HomePage
HomeHandleInput(input, read_ok) ==
    /\ call' = [op |-> "HomePage::handle_input", input |-> input, read_ok |-> read_ok]
    /\ ret' = HomePage_handle_input([db |-> db_file], input, read_ok)
    /\ UNCHANGED db_file
    /\ EnvDb

\* page.handle_input(input) on the EpicDetail page of epic_id
EpicDetailHandleInput(epic_id, input, read_ok) ==
    /\ call' = [op |-> "EpicDetail::handle_input", epic_id |-> epic_id,
                input |-> input, read_ok |-> read_ok]
    /\ ret' = EpicDetail_handle_input([epic_id |-> epic_id, db |-> db_file], input, read_ok)
    /\ UNCHANGED db_file
    /\ EnvDb

\* page.handle_input(input) on the StoryDetail page of story_id
StoryDetailHandleInput(story_id, input) ==
    /\ call' = [op |-> "StoryDetail::handle_input", story_id |-> story_id,
                input |-> input]
    /\ ret' = StoryDetail_handle_input([story_id |-> story_id, db |-> db_file], input)
    /\ UNCHANGED db_file
    /\ EnvDb

\* one line of input on one page over a store that served operations have built
NextPages ==
    /\ call.op = "none"
    /\ \/ \E input \in PageInputs, read_ok \in BOOLEAN : HomeHandleInput(input, read_ok)
       \/ \E epic_id \in Ids, input \in PageInputs, read_ok \in BOOLEAN :
             EpicDetailHandleInput(epic_id, input, read_ok)
       \/ \E story_id \in Ids, input \in PageInputs : StoryDetailHandleInput(story_id, input)

SpecPages == InitDbLookup /\ [][NextPages]_vars


(***************************************************************************)
(* Properties of the account.                                              *)
(***************************************************************************)

\* b is a + 1 as a number (no b is when a is u32::MAX)
u32_is_succ(a, b) ==
    \/ a.lo < LIMB - 1 /\ b = [hi |-> a.hi, lo |-> a.lo + 1]
    \/ a.lo = LIMB - 1 /\ a.hi < LIMB - 1 /\ b = [hi |-> a.hi + 1, lo |-> 0]

\* the hash function itself, free of library faults
hash_of(uuid, pass_num, password) == hash(uuid, pass_num, password, NoFaults).val

\* C1: whenever verify_password(p) answers, it answers true if p is the
\* password of the last successful new/change_password and false otherwise.
C1_VerifyPasswordExact ==
    (call.op = "verify_password" /\ ret.tag = "Ok")
        => ret.val = (call.password = cur_password.val)

C3_HashOfCurrentPassword ==
    user.tag = "Some"
        => user.val.password_hash
               = hash_of(user.val.uuid, user.val.password_number, cur_password.val)

\* C4: change_password with a password the policy check rejects returns that
\* error and leaves every field of the account as it was.
C4_RejectedChangeLeavesAccount ==
    [][(call'.op = "change_password" /\ is_password_compliant(call'.password).tag = "Err")
        => /\ ret' = is_password_compliant(call'.password)
           /\ user' = user]_vars

\* change_password has returned a policy violation
C4_Witness ==
    /\ call.op = "change_password"
    /\ ret.tag = "Err"
    /\ ret.msg \in PolicyMsgs

\* C5: rotation_counter is 0 after new and never decreases from one state of
\* the account to the next.
C5_CounterNeverDecreases ==
    [][/\ (call'.op = "new" /\ ret'.tag = "Ok") => user'.val.password_number = U32(0)
       /\ (user.tag = "Some" /\ user'.tag = "Some")
              => ~u32_lt(user'.val.password_number, user.val.password_number)]_vars

\* C9: new with a password the policy check rejects produces no account; when
\* new succeeds the account has counter 0, no second-factor secret, the given
\* username and the hash of the given password under (uuid, 0).
C9_NewChecksThenBuilds ==
    call.op = "new"
        => IF is_password_compliant(call.password).tag = "Err"
               THEN ret = is_password_compliant(call.password) /\ user = None
           ELSE IF ret.tag = "Ok"
               THEN /\ user = Some(ret.val)
                    /\ user.val.password_number = U32(0)
                    /\ user.val.totp = None
                    /\ user.val.username = call.username
                    /\ user.val.password_hash = hash_of(user.val.uuid, U32(0), call.password)
           ELSE user = None

\* new has rejected a password
C9_Witness ==
    /\ call.op = "new"
    /\ ret.tag = "Err"
    /\ ret.msg \in PolicyMsgs
    /\ user = None

\* C10: verify_totp on an account without a secret returns the not-enabled
\* error for every code; on an account with a secret it never returns that
\* error, and a code that differs from the computed one returns false.
C10_NotEnabledIsNotMismatch ==
    call.op = "verify_totp"
        => IF user.val.totp = None
               THEN ret = Err(MsgNotEnabled)
           ELSE /\ ret # Err(MsgNotEnabled)
                /\ (call.clock_ok
                    /\ call.code # EasyTotp_generate_token(user.val.totp.val, now, TRUE).val)
                       => ret = Ok(FALSE)

\* verify_totp has been called on an account without a secret
C10_Witness ==
    /\ call.op = "verify_totp"
    /\ user.val.totp = None
    /\ ret = Err(MsgNotEnabled)

\* the second-factor secret of the account the caller holds (None before creation)
totp_of(u) == IF u.tag = "Some" THEN u.val.totp ELSE None

\* C11: the secret is present exactly when the most recent of the successful
\* enable_2fa calls and the disable_2fa calls was a successful enable_2fa: a
\* successful enable_2fa leaves a secret, disable_2fa and creation leave none,
\* and every other step (a failed enable_2fa included) leaves it as it was.
C11_SecretIffLastWasEnable ==
    [][ IF call'.op = "enable_2fa" /\ ret'.tag = "Ok" THEN totp_of(user').tag = "Some"
        ELSE IF call'.op \in {"disable_2fa", "new"} THEN totp_of(user') = None
        ELSE totp_of(user') = totp_of(user) ]_vars

\* a successful enable_2fa has left the account with a secret
C11_Witness ==
    /\ call.op = "enable_2fa"
    /\ ret.tag = "Ok"
    /\ user.val.totp.tag = "Some"

\* C12: an enable_2fa that fails (creating the secret, or rendering the QR
\* code) returns that error and leaves the account, its second-factor state
\* included, as it was.
C12_FailedEnableChangesNothing ==
    [][ (call'.op = "enable_2fa" /\ ret'.tag # "Ok")
            => /\ ret' \in {Err(MsgTotpNew), Err(MsgQr)}
               /\ user' = user ]_vars

\* an enable_2fa has failed at the rendering on an account that holds a secret
C12_Witness ==
    /\ call.op = "enable_2fa"
    /\ ret = Err(MsgQr)
    /\ user.val.totp.tag = "Some"

\* C13: disable_2fa never fails and is idempotent: it leaves the account with
\* no secret and otherwise as it was, a second call changes nothing more, a
\* call on an account without a secret changes nothing, and a verify_totp
\* that follows it returns the not-enabled error.
C13_DisableIdempotent ==
    [][ /\ call'.op = "disable_2fa"
            => /\ ret' = [tag |-> "Unit"]
               /\ user' = Some([user.val EXCEPT !.totp = None])
               /\ disable_2fa(user'.val) = user'.val
               /\ user.val.totp = None => user' = user
        /\ (call.op = "disable_2fa" /\ call'.op = "verify_totp")
            => ret' = Err(MsgNotEnabled) ]_vars

\* disable_2fa has returned and a further call would change nothing
C13_Witness ==
    /\ call.op = "disable_2fa"
    /\ ret = [tag |-> "Unit"]
    /\ user.val.totp = None
    /\ disable_2fa(user.val) = user.val

\* the code "000000"
ZeroCode == 0

\* the code verify_totp computes from the stored secret at the current time step
current_code == EasyTotp_generate_token(user.val.totp.val, now, TRUE).val

C15_HashFailureIsError ==
    call.op = "verify_password"
        => LET attempt_hash == hash(user.val.uuid, user.val.password_number,
                                    call.password, faults)
           IN  /\ attempt_hash.tag = "Err" => ret = attempt_hash
               /\ ret = Ok(FALSE) => /\ attempt_hash.tag = "Ok"
                                     /\ attempt_hash.val # user.val.password_hash
               /\ ret.tag \in {"Ok", "Err"}

\* verify_password has returned the error of a failed hash
C15_Witness ==
    /\ call.op = "verify_password"
    /\ ret \in {Err(MsgSalt), Err(MsgHash)}


(***************************************************************************)
(* Properties of the password policy.  The five rules as the policy       *)
(* states them, over the characters of the password.                      *)
(***************************************************************************)
UppercaseLetters == {"A", "B", "U+00C9"}
LowercaseLetters == {"a", "b", "U+00E9"}
Letters == UppercaseLetters \cup LowercaseLetters \cup {"U+3042"}
DecimalDigits == {"1"}

RuleLength(p) == Len(p) >= 16 /\ Len(p) <= 128
RuleUppercase(p) == \E i \in 1..Len(p) : p[i] \in UppercaseLetters
RuleLowercase(p) == \E i \in 1..Len(p) : p[i] \in LowercaseLetters
RuleDigit(p) == \E i \in 1..Len(p) : p[i] \in DecimalDigits
RuleSpecial(p) == \E i \in 1..Len(p) : p[i] \notin Letters \cup DecimalDigits

AllRules(p) ==
    RuleLength(p) /\ RuleUppercase(p) /\ RuleLowercase(p) /\ RuleDigit(p) /\ RuleSpecial(p)

\* the violation of the first broken rule in the order length, uppercase,
\* lowercase, digit, special
FirstBroken(p) ==
    IF ~RuleLength(p) THEN MsgLength
    ELSE IF ~RuleUppercase(p) THEN MsgUppercase
    ELSE IF ~RuleLowercase(p) THEN MsgLowercase
    ELSE IF ~RuleDigit(p) THEN MsgDigit
    ELSE MsgSpecial

\* C6: the policy check accepts a password if and only if all five rules
\* hold; a password breaking any single rule (length 15 or 129 included) is
\* rejected.
C6_AcceptsIffAllRules ==
    call.op = "is_password_compliant"
        => ((ret.tag = "Ok") <=> AllRules(call.password))

\* C7: the length rule counts characters: it passes exactly when the number
\* of characters of the password is in [16, 128], whatever their encoding.
C7_LengthRuleCountsCharacters ==
    call.op = "is_password_compliant"
        => ((ret # Err(MsgLength)) <=> RuleLength(call.password))

\* C8: every non-compliant password is reported with exactly one violation,
\* that of the first broken rule in the order length, uppercase, lowercase,
\* digit, special.
C8_ReportsFirstBrokenRule ==
    call.op = "is_password_compliant"
        => (~AllRules(call.password) => ret = Err(FirstBroken(call.password)))


\* C27 as stated: after any change_password, whatever it returns, the pair
\* (password_number, password_hash) is the pair from before the call or the
\* pair (old counter + 1, hash of the new password under the new counter).
C27_ChangePasswordAtomic ==
    [][ call'.op = "change_password"
            => \/ /\ user'.val.password_number = user.val.password_number
                  /\ user'.val.password_hash = user.val.password_hash
               \/ /\ u32_is_succ(user.val.password_number, user'.val.password_number)
                  /\ user'.val.password_hash
                         = hash_of(user'.val.uuid, user'.val.password_number,
                                   call'.password) ]_vars

\* C28: the salt derivation is injective: two different pairs (uuid,
\* pass_num) never yield the same salt input.
C28_SaltInjective ==
    (call.op = "salt_input" /\ call.a # call.b) => ret[1] # ret[2]

\* the salts of one uuid at two counters whose digits share a prefix
C28_Witness ==
    /\ call.op = "salt_input"
    /\ call.a[1] = call.b[1]
    /\ call.a[2] = U32(1)
    /\ call.b[2] = U32(10)
    /\ ret[1] # ret[2]

\* C29: uuid and username are assigned by new and no later call changes
\* them, whether it succeeds or fails.
C29_IdentityImmutable ==
    [][ /\ (user.tag = "Some" /\ user'.tag = "Some")
            => /\ user'.val.uuid = user.val.uuid
               /\ user'.val.username = user.val.username
        /\ (user.tag = "None" /\ user'.tag = "Some")
            => /\ call'.op = "new"
               /\ user'.val.username = call'.username ]_vars

\* an account that has rotated its password MaxRotations times and has a secret
C29_Witness ==
    /\ user.tag = "Some"
    /\ user.val.password_number = U32(MaxRotations)
    /\ user.val.totp.tag = "Some"
    /\ call.op = "change_password"
    /\ ret.tag = "Ok"

C31_NoInterference ==
    [][ user.tag = "Some" =>
          /\ call'.op = "change_password" => user'.val.totp = user.val.totp
          /\ call'.op \in {"enable_2fa", "disable_2fa"}
                => /\ user'.val.password_hash = user.val.password_hash
                   /\ user'.val.password_number = user.val.password_number
          /\ call'.op \in {"verify_password", "verify_totp"} => user' = user ]_vars

\* a password change that succeeded on an account with a secret, which the
\* account still has
C31_Witness ==
    /\ call.op = "change_password"
    /\ ret = Ok("()")
    /\ user.val.password_number = U32(1)
    /\ user.val.totp.tag = "Some"
    /\ user.val.totp.val.secret = NumSecrets

(***************************************************************************)
(* Properties of the store.                                                *)
(***************************************************************************)
\* the file holds a DBState and the file system serves the whole operation
Served(io) == db_file.tag = "Some" /\ db_file.val # Truncated /\ io = <<TRUE, "all">>

\* the elements of a Vec
elements(v) == {v[i] : i \in 1..Len(v)}

\* C17 as stated: create_epic on a store whose last_item_id is n returns
\* n + 1, sets last_item_id to n + 1, stores the given epic unchanged under
\* key n + 1 and leaves every other epic and every story as it was.
C17_CreateEpicReturnsNext ==
    [][ (call'.op = "create_epic" /\ Served(call'.io))
            => LET before == db_file.val
                   after == db_file'.val
               IN  /\ ret'.tag = "Ok"
                   /\ u32_is_succ(before.last_item_id, ret'.val)
                   /\ after.last_item_id = ret'.val
                   /\ DOMAIN after.epics = DOMAIN before.epics \cup {ret'.val}
                   /\ after.epics[ret'.val] = call'.epic
                   /\ \A k \in DOMAIN before.epics \ {ret'.val} :
                          after.epics[k] = before.epics[k]
                   /\ after.stories = before.stories ]_vars

\* C18 as stated: create_story(story, epic_id) with an existing epic_id on a
\* store whose last_item_id is n returns n + 1, sets last_item_id to n + 1,
\* stores the story under key n + 1 and appends n + 1 to the stories list of
\* that epic and of no other epic.
C18_CreateStoryReturnsNext ==
    [][ (/\ call'.op = "create_story"
         /\ Served(call'.io)
         /\ contains_key(db_file.val.epics, call'.epic_id))
            => LET before == db_file.val
                   after == db_file'.val
                   e == call'.epic_id
               IN  /\ ret'.tag = "Ok"
                   /\ u32_is_succ(before.last_item_id, ret'.val)
                   /\ after.last_item_id = ret'.val
                   /\ DOMAIN after.stories = DOMAIN before.stories \cup {ret'.val}
                   /\ after.stories[ret'.val] = call'.story
                   /\ DOMAIN after.epics = DOMAIN before.epics
                   /\ after.epics[e].stories = Append(before.epics[e].stories, ret'.val)
                   /\ \A k \in DOMAIN before.epics \ {e} :
                          after.epics[k] = before.epics[k] ]_vars

\* C19: delete_epic(epic_id) on an existing epic removes that epic and every
\* story listed in it, leaves all other epics and stories as they were, and
\* leaves last_item_id unchanged.
C19_DeleteEpicRemovesItsStories ==
    [][ (/\ call'.op = "delete_epic"
         /\ Served(call'.io)
         /\ contains_key(db_file.val.epics, call'.epic_id))
            => LET before == db_file.val
                   after == db_file'.val
                   e == call'.epic_id
                   listed == elements(before.epics[e].stories)
               IN  /\ ret' = Ok("()")
                   /\ DOMAIN after.epics = DOMAIN before.epics \ {e}
                   /\ DOMAIN after.stories = DOMAIN before.stories \ listed
                   /\ \A k \in DOMAIN after.epics : after.epics[k] = before.epics[k]
                   /\ \A k \in DOMAIN after.stories : after.stories[k] = before.stories[k]
                   /\ after.last_item_id = before.last_item_id ]_vars

\* delete_epic has removed an epic from a store that had handed out MaxItems
\* ids and still holds another epic with a story
C19_Witness ==
    /\ call.op = "delete_epic"
    /\ ret = Ok("()")
    /\ db_file.val.last_item_id = U32(MaxItems)
    /\ ~contains_key(db_file.val.epics, call.epic_id)
    /\ \E k \in DOMAIN db_file.val.epics :
          /\ db_file.val.epics[k].stories # <<>>
          /\ elements(db_file.val.epics[k].stories) \subseteq DOMAIN db_file.val.stories

\* C20: delete_story(epic_id, story_id) returns an error when the epic does
\* not exist or when story_id is not in that epic's stories list; otherwise
\* it removes story_id from that epic's list and from the stories map and
\* leaves last_item_id unchanged.
C20_DeleteStoryChecksThenRemoves ==
    [][ (call'.op = "delete_story" /\ Served(call'.io))
            => LET before == db_file.val
                   after == db_file'.val
                   e == call'.epic_id
                   s == call'.story_id
               IN  IF ~contains_key(before.epics, e) THEN ret'.tag = "Err"
                   ELSE IF ~contains(before.epics[e].stories, s) THEN ret'.tag = "Err"
                   ELSE /\ ret' = Ok("()")
                        /\ after.epics[e].stories = retain_ne(before.epics[e].stories, s)
                        /\ ~contains(after.epics[e].stories, s)
                        /\ ~contains_key(after.stories, s)
                        /\ after.last_item_id = before.last_item_id ]_vars

\* delete_story has refused a story that is not in the stories list of an
\* existing epic
C20_Witness ==
    /\ call.op = "delete_story"
    /\ Served(call.io)
    /\ contains_key(db_file.val.epics, call.epic_id)
    /\ ret = Err(MsgNoStoryInEpic(call.story_id, call.epic_id))

\* C21: create_story, delete_epic and update_epic_status return an error
\* when the store does not hold the given epic id, and update_story_status
\* returns an error when it does not hold the given story id.
C21_MissingIdIsError ==
    [][ LET holds_epic(id) ==
                db_file.val # Truncated /\ contains_key(db_file.val.epics, id)
            holds_story(id) ==
                db_file.val # Truncated /\ contains_key(db_file.val.stories, id)
        IN  /\ (/\ call'.op \in {"create_story", "delete_epic", "update_epic_status"}
                /\ ~holds_epic(call'.epic_id))
                   => ret'.tag = "Err"
            /\ (call'.op = "update_story_status" /\ ~holds_story(call'.story_id))
                   => ret'.tag = "Err" ]_vars

\* delete_epic has refused an id that a store with epics does not hold
C21_Witness ==
    /\ call.op = "delete_epic"
    /\ Served(call.io)
    /\ DOMAIN db_file.val.epics # {}
    /\ ret = Err(MsgNoEpic(call.epic_id))

\* C22: update_epic_status(id, s) and update_story_status(id, s) on an item
\* the store holds set that item's status to s and change nothing else: not
\* its name, its description or (for an epic) its stories list, no other
\* item, and not last_item_id.
C22_UpdateSetsStatusOnly ==
    [][ LET before == db_file.val
            after == db_file'.val
        IN  /\ (/\ call'.op = "update_epic_status"
                /\ Served(call'.io)
                /\ contains_key(before.epics, call'.epic_id))
                   => /\ ret' = Ok("()")
                      /\ DOMAIN after.epics = DOMAIN before.epics
                      /\ \A k \in DOMAIN before.epics :
                             IF k = call'.epic_id
                                 THEN /\ after.epics[k].status = call'.status
                                      /\ after.epics[k].name = before.epics[k].name
                                      /\ after.epics[k].description
                                             = before.epics[k].description
                                      /\ after.epics[k].stories = before.epics[k].stories
                             ELSE after.epics[k] = before.epics[k]
                      /\ after.stories = before.stories
                      /\ after.last_item_id = before.last_item_id
            /\ (/\ call'.op = "update_story_status"
                /\ Served(call'.io)
                /\ contains_key(before.stories, call'.story_id))
                   => /\ ret' = Ok("()")
                      /\ DOMAIN after.stories = DOMAIN before.stories
                      /\ \A k \in DOMAIN before.stories :
                             IF k = call'.story_id
                                 THEN /\ after.stories[k].status = call'.status
                                      /\ after.stories[k].name = before.stories[k].name
                                      /\ after.stories[k].description
                                             = before.stories[k].description
                             ELSE after.stories[k] = before.stories[k]
                      /\ after.epics = before.epics
                      /\ after.last_item_id = before.last_item_id ]_vars

\* update_epic_status has closed an epic that lists a story
C22_Witness ==
    /\ call.op = "update_epic_status"
    /\ ret = Ok("()")
    /\ call.status = "Closed"
    /\ db_file.val.epics[call.epic_id].status = "Closed"
    /\ db_file.val.epics[call.epic_id].stories # <<>>

\* C23: JiraDatabase::new returns an error and leaves the file as it is when
\* a file exists at the path; when none exists (and the directory and the
\* file can be written) it creates one that holds last_item_id 0, no epics
\* and no stories; so a new that follows a successful new fails.
C23_NewCreatesOnce ==
    [][ call'.op = "JiraDatabase::new"
            => /\ IF db_file # None
                      THEN ret'.tag = "Err" /\ db_file' = db_file
                  ELSE (call'.dir_ok /\ call'.written = "all")
                           => /\ ret'.tag = "Ok"
                              /\ db_file' = Some([last_item_id |-> U32(0),
                                                  epics |-> EmptyMap,
                                                  stories |-> EmptyMap])
               /\ (call.op = "JiraDatabase::new" /\ ret.tag = "Ok") => ret'.tag = "Err" ]_vars

\* new has refused a path whose file holds a store with items
C23_Witness ==
    /\ call.op = "JiraDatabase::new"
    /\ ret = Err(MsgExists)
    /\ db_file.val # Truncated
    /\ DOMAIN db_file.val.epics # {}


(***************************************************************************)
(* Properties of the pages                                                 *)
(***************************************************************************)
\* the store as a page reads it, when the file can be read and parsed
Readable(read_ok) == read_db(db_file, read_ok).tag = "Ok"
StoreRead == read_db(db_file, TRUE).val

\* C24: on the home page, over a store that can be read, the input "q" and
\* nothing else gives Exit, the input "c" and nothing else gives CreateEpic,
\* an input that parses as the id of an epic in the store gives
\* NavigateToEpicDetail with that id, and every other input (an id of no
\* epic, junk, a command letter followed by more characters or by a newline)
\* gives no action.
C24_HomeInput ==
    (call.op = "HomePage::handle_input" /\ Readable(call.read_ok)) =>
        LET id == parse_u32(call.input)
        IN  /\ (ret = Ok(Some(Exit))) <=> (call.input = <<"q">>)
            /\ (ret = Ok(Some(CreateEpicAction))) <=> (call.input = <<"c">>)
            /\ \A e \in Ids :
                  (ret = Ok(Some(NavigateToEpicDetail(e)))) <=>
                      (id = Ok(e) /\ contains_key(StoreRead.epics, e))
            /\ ~(\/ call.input \in {<<"q">>, <<"c">>}
                 \/ (id.tag = "Ok" /\ contains_key(StoreRead.epics, id.val)))
                  => ret = Ok(None)

\* an id of an epic in the store is answered, and a line that only begins
\* with a command letter is not
C24_Witness ==
    /\ call.op = "HomePage::handle_input"
    /\ call.input = <<"1">>
    /\ ret = Ok(Some(NavigateToEpicDetail(U32(1))))

\* C25: on the page of an epic, over a store that can be read, "p" gives
\* NavigateToPreviousPage, "u", "d" and "c" give UpdateEpicStatus,
\* DeleteEpic and CreateStory with the page's own epic id, an input that
\* parses as the id of a story in the store gives NavigateToStoryDetail with
\* that id, and every other input gives no action.
C25_EpicDetailInput ==
    (call.op = "EpicDetail::handle_input" /\ Readable(call.read_ok)) =>
        LET id == parse_u32(call.input)
        IN  /\ (ret = Ok(Some(NavigateToPreviousPage))) <=> (call.input = <<"p">>)
            /\ (call.input = <<"u">>) => ret = Ok(Some(UpdateEpicStatusAction(call.epic_id)))
            /\ (call.input = <<"d">>) => ret = Ok(Some(DeleteEpicAction(call.epic_id)))
            /\ (call.input = <<"c">>) => ret = Ok(Some(CreateStoryAction(call.epic_id)))
            /\ \A t \in Ids :
                  (ret = Ok(Some(NavigateToStoryDetail(t)))) <=>
                      (id = Ok(t) /\ contains_key(StoreRead.stories, t))
            /\ ~(\/ call.input \in {<<"p">>, <<"u">>, <<"d">>, <<"c">>}
                 \/ (id.tag = "Ok" /\ contains_key(StoreRead.stories, id.val)))
                  => ret = Ok(None)

\* the id of a story is answered on the page of an epic while an epic of
\* the store is not
C25_Witness ==
    /\ call.op = "EpicDetail::handle_input"
    /\ call.input = <<"2">>
    /\ ret = Ok(Some(NavigateToStoryDetail(U32(2))))
    /\ contains_key(StoreRead.epics, U32(1))

\* C26: on the page of a story "p" gives NavigateToPreviousPage, "u" and
\* "d" give UpdateStoryStatus and DeleteStory with the page's own story id,
\* and every other input gives no action, a numeral that is the id of an
\* epic or a story in the store included.
C26_StoryDetailInput ==
    call.op = "StoryDetail::handle_input" =>
        /\ (call.input = <<"p">>) => ret = Ok(Some(NavigateToPreviousPage))
        /\ (call.input = <<"u">>) => ret = Ok(Some(UpdateStoryStatusAction(call.story_id)))
        /\ (call.input = <<"d">>) => ret = Ok(Some(DeleteStoryAction(call.story_id)))
        /\ call.input \notin {<<"p">>, <<"u">>, <<"d">>} => ret = Ok(None)

\* a numeral that is the id of a story in the store gives no action
C26_Witness ==
    /\ call.op = "StoryDetail::handle_input"
    /\ call.input = <<"2">>
    /\ Readable(TRUE)
    /\ contains_key(StoreRead.stories, U32(2))
    /\ ret = Ok(None)


\* the file holds a state of the store that read_db parses
Parsed(file) == file.tag = "Some" /\ file.val # Truncated

\* C32 as stated: ids are never reused.  Over every step of a store that
\* began empty, last_item_id does not decrease, a create returns an id
\* greater than last_item_id before the call (which bounds every id returned
\* earlier), every key of epics and of stories is at most last_item_id, and
\* no id is a key of both epics and stories.
C32_IdsNeverReused ==
    [][ (Parsed(db_file) /\ Parsed(db_file'))
            => LET before == db_file.val
                   after == db_file'.val
               IN  /\ ~u32_lt(after.last_item_id, before.last_item_id)
                   /\ (call'.op \in {"create_epic", "create_story"} /\ ret'.tag = "Ok")
                          => u32_lt(before.last_item_id, ret'.val)
                   /\ \A k \in DOMAIN after.epics \cup DOMAIN after.stories :
                          ~u32_lt(after.last_item_id, k)
                   /\ DOMAIN after.epics \cap DOMAIN after.stories = {} ]_vars

====
